---- MODULE Spec2Model ----
(***************************************************************************)
(* siddiqsoft::WaitableQueue (include/siddiqsoft/WaitableQueue.hpp) as a   *)
(* state machine: producer threads run push/emplace, consumer threads run  *)
(* tryWaitItem, a drain thread runs waitUntilEmpty.  Every statement that  *)
(* another thread can observe is one step.                                 *)
(***************************************************************************)
EXTENDS Integers, Sequences, FiniteSets, TLC

\* ------------------------------------------------------------- bounds
\* Total number of push/emplace calls the producers start.
MaxPush == 3
\* waitUntilEmpty timeouts are 1 ms more than 0..MaxTimeoutSteps spin intervals.
MaxTimeoutSteps == 2

\* Total number of RWContainer add/remove calls the map threads start.
MaxMapWrites == 3
\* constexpr std::chrono::milliseconds spinInterval {32}
spinInterval == 32

Producers == {"p1", "p2"}
Consumers == {"c1", "c2"}
Drainers  == {"d1"}
Threads   == Producers \cup Consumers \cup Drainers

\* Two distinguishable values of StorageType: enough to tell any reordering,
\* loss or duplication of items (the queue never inspects a value).
Values   == {"a", "b"}
NoThread == "none"
Nothing  == "nothing"    \* the empty std::optional
Timeouts == {spinInterval * k + 1 : k \in 0..MaxTimeoutSteps}

\* RWContainer<KeyType, StorageType>: threads, keys, and shared_ptr handles.
\* A handle is the identity of the object it points to; 0 is the empty handle.
MapThreads == {"m1", "m2"}
Keys       == {"k1", "k2"}
NullHandle == 0
AddForms   == {"value", "handle", "callback"}
NoCall     == [op |-> "none", key |-> "none", form |-> "none", handle |-> NullHandle]
NoJson     == [adds |-> 0, removes |-> 0, ReplaceExisting |-> FALSE,
               FailOnCollission |-> FALSE, size |-> 0]
NoSnapshot == [table |-> [k \in Keys |-> NullHandle], order |-> <<>>,
               adds |-> 0, removes |-> 0, objects |-> 0]

VARIABLES
    container,       \* _container: the std::queue, head first
    counterAdds,     \* _counterAdds
    counterRemoves,  \* _counterRemoves
    signal,          \* _signal: the counting semaphore's count
    writer,          \* _containerMutex: the thread holding it exclusively
    readers,         \* _containerMutex: the threads holding it shared
    pc,              \* each thread's position
    op,              \* producers: the operation running, "push" or "emplace"
    val,             \* producers: the value argument
    tmp,             \* producers/consumers: the counter value read by ++
    item,            \* consumers: the optional under construction / returned
    timeoutDuration, \* drainers: waitUntilEmpty's argument
    spinDuration,    \* drainers: waitUntilEmpty's local
    sizeResult,      \* drainers: the value size() returned
    slept,           \* history: total sleep_for time of the running waitUntilEmpty
    pushedSeq,       \* history: values appended, in lock order
    poppedSeq,       \* history: values moved out by tryWaitItem, in lock order
    pushDone,        \* history: number of push/emplace calls that returned
    nPop,            \* history: pop() calls made by the running tryWaitItem
    nRem,            \* history: _counterRemoves++ made by the running tryWaitItem
    startOut         \* history: _counterAdds - _counterRemoves when the running
                     \*          waitUntilEmpty was called

VARIABLES
    table,            \* _container: key -> stored handle (for the keys in order)
    order,            \* _container: its keys in iteration order
    mapAdds,          \* _counterAdds (std::atomic)
    mapRemoves,       \* _counterRemoves (std::atomic)
    ReplaceExisting,  \* the public policy flag
    FailOnCollission, \* the public policy flag
    mapWriter,        \* _containerMutex: the thread holding it exclusively
    mapReaders,       \* _containerMutex: the threads holding it shared
    nObjects,         \* number of StorageType objects allocated so far
    mpc,              \* each map thread's position
    call,             \* the running call: operation, key, input form, handle argument
    found,            \* add/remove: itemFound != _container.end()
    result,           \* the value the call is about to return
    scanPos,          \* scan: position of the range-for in the iteration order
    pre,              \* history: table and counters when the call took the lock
    flipped,          \* history: the policy flags written during the call
    cbLog,            \* history: was the key present when the callback ran
    scanLog,          \* history: <<key, answer>> of each predicate invocation
    mapWrites         \* history: number of add/remove calls started

mapShared == <<table, order, mapAdds, mapRemoves, nObjects>>
mapPolicy == <<ReplaceExisting, FailOnCollission>>
mapLock   == <<mapWriter, mapReaders>>
mapLocals == <<call, found, result, scanPos>>
mapHist   == <<pre, flipped, cbLog, scanLog, mapWrites>>

\* The RWContainer and its threads.
mapState == <<mapShared, mapPolicy, mapLock, mpc, mapLocals, mapHist>>

VARIABLES
    jpc,              \* the position of the thread calling RWContainer::toJson
    json              \* the fields of the snapshot read so far

\* RWContainer::toJson and its thread.
jsonVars == <<jpc, json>>

VARIABLES
    held,             \* the handle each map thread has kept from a call that returned
    destroyed         \* the StorageType objects whose last handle is gone

\* The shared_ptr handles outside the container and the objects' lifetime.
ownVars == <<held, destroyed>>

\* The WaitableQueue and its threads.
queueState == <<container, counterAdds, counterRemoves, signal, writer, readers, pc,
                op, val, tmp, item, timeoutDuration, spinDuration, sizeResult,
                slept, pushedSeq, poppedSeq, pushDone, nPop, nRem, startOut>>

\* What the WaitableQueue's own steps leave alone.
otherVars == <<mapState, jsonVars, ownVars>>

vars == <<queueState, otherVars>>

queueVars == <<container, counterAdds, counterRemoves>>
lockVars  == <<writer, readers>>
prodVars  == <<op, val>>
consVars  == <<item, nPop, nRem>>
drainVars == <<timeoutDuration, spinDuration, sizeResult, slept, startOut>>
histVars  == <<pushedSeq, poppedSeq, pushDone>>

\* ------------------------------------------------- std::shared_mutex
\* (changed: an exclusive lock that only keeps readers out, not other writers)
CanLockExclusiveReadersOnly(t) == readers = {}

\* std::unique_lock<std::shared_mutex>: exclusive ownership
CanLockExclusive(t) == writer = NoThread /\ readers = {}
\* std::shared_lock<std::shared_mutex>: shared ownership
CanLockShared(t) == writer = NoThread

Init ==
    /\ container = <<>>
    /\ counterAdds = 0
    /\ counterRemoves = 0
    /\ signal = 0
    /\ writer = NoThread
    /\ readers = {}
    /\ pc = [t \in Threads |-> "idle"]
    /\ op = [p \in Producers |-> "none"]
    /\ val = [p \in Producers |-> Nothing]
    /\ tmp = [t \in Producers \cup Consumers |-> 0]
    /\ item = [c \in Consumers |-> Nothing]
    /\ timeoutDuration = [d \in Drainers |-> 0]
    /\ spinDuration = [d \in Drainers |-> 0]
    /\ sizeResult = [d \in Drainers |-> 0]
    /\ slept = [d \in Drainers |-> 0]
    /\ pushedSeq = <<>>
    /\ poppedSeq = <<>>
    /\ pushDone = 0
    /\ nPop = [c \in Consumers |-> 0]
    /\ nRem = [c \in Consumers |-> 0]
    /\ startOut = [d \in Drainers |-> 0]
    /\ table = [k \in Keys |-> NullHandle]
    /\ order = <<>>
    /\ mapAdds = 0
    /\ mapRemoves = 0
    /\ ReplaceExisting = FALSE
    /\ FailOnCollission = FALSE
    /\ mapWriter = NoThread
    /\ mapReaders = {}
    /\ nObjects = 0
    /\ mpc = [t \in MapThreads |-> "idle"]
    /\ call = [t \in MapThreads |-> NoCall]
    /\ found = [t \in MapThreads |-> FALSE]
    /\ result = [t \in MapThreads |-> NullHandle]
    /\ scanPos = [t \in MapThreads |-> 0]
    /\ pre = [t \in MapThreads |-> NoSnapshot]
    /\ flipped = [t \in MapThreads |-> {}]
    /\ cbLog = [t \in MapThreads |-> "none"]
    /\ scanLog = [t \in MapThreads |-> <<>>]
    /\ mapWrites = 0
    /\ jpc = "idle"
    /\ json = NoJson
    /\ held = [t \in MapThreads |-> NullHandle]
    /\ destroyed = {}

\* Calls started so far: returned ones plus those running.
PushStarted == pushDone + Cardinality({p \in Producers : pc[p] # "idle"})

\* ------------------------------------------------- push / emplace
\* RWLock _ {_containerMutex}: the call begins by taking the lock exclusively.
AddLock(p, o, v) ==
    /\ pc[p] = "idle"
    /\ PushStarted < MaxPush
    /\ CanLockExclusive(p)
    /\ writer' = p
    /\ pc' = [pc EXCEPT ![p] = "load"]
    /\ op' = [op EXCEPT ![p] = o]
    /\ val' = [val EXCEPT ![p] = v]
    /\ UNCHANGED <<otherVars, queueVars, signal, readers, tmp, consVars, drainVars, histVars>>

\* _counterAdds++ on a plain uint64_t: the read ...
AddLoad(p, o) ==
    /\ pc[p] = "load" /\ op[p] = o
    /\ tmp' = [tmp EXCEPT ![p] = counterAdds]
    /\ pc' = [pc EXCEPT ![p] = "store"]
    /\ UNCHANGED <<otherVars, queueVars, signal, lockVars, prodVars, consVars, drainVars, histVars>>

\* (changed: emplace forgets _counterAdds++)
AddStoreEmplaceUncounted(p, o) ==
    /\ pc[p] = "store" /\ op[p] = o
    /\ counterAdds' = IF o = "emplace" THEN counterAdds ELSE tmp[p] + 1
    /\ tmp' = [tmp EXCEPT ![p] = 0]
    /\ pc' = [pc EXCEPT ![p] = "append"]
    /\ UNCHANGED <<otherVars, container, counterRemoves, signal, lockVars, prodVars, consVars,
                   drainVars, histVars>>

\* ... and the write.
AddStore(p, o) ==
    /\ pc[p] = "store" /\ op[p] = o
    /\ counterAdds' = tmp[p] + 1
    /\ tmp' = [tmp EXCEPT ![p] = 0]
    /\ pc' = [pc EXCEPT ![p] = "append"]
    /\ UNCHANGED <<otherVars, container, counterRemoves, signal, lockVars, prodVars, consVars,
                   drainVars, histVars>>

\* std::queue::push / std::queue::emplace: both construct the element at the back.
QueuePush(q, v) == Append(q, v)
\* (changed: emplace constructs the element at the front)
QueueEmplaceFront(q, v) == <<v>> \o q
QueueEmplace(q, v) == Append(q, v)

AddAppend(p, o) ==
    /\ pc[p] = "append" /\ op[p] = o
    /\ container' = IF o = "push" THEN QueuePush(container, val[p])
                                  ELSE QueueEmplace(container, val[p])
    /\ pushedSeq' = Append(pushedSeq, val[p])
    /\ pc' = [pc EXCEPT ![p] = "unlock"]
    /\ UNCHANGED <<otherVars, counterAdds, counterRemoves, signal, lockVars, prodVars, tmp,
                   consVars, drainVars, poppedSeq, pushDone>>

\* (changed: _signal.release() moved inside the locked block)
AddUnlockAfterSignal(p, o) ==
    /\ pc[p] = "unlock" /\ op[p] = o
    /\ pc' = [pc EXCEPT ![p] = "signal"]
    /\ UNCHANGED <<otherVars, queueVars, signal, lockVars, prodVars, tmp, consVars, drainVars,
                   histVars>>

\* End of the if statement: the unique_lock is destroyed.
AddUnlock(p, o) ==
    /\ pc[p] = "unlock" /\ op[p] = o
    /\ writer' = IF writer = p THEN NoThread ELSE writer
    /\ pc' = [pc EXCEPT ![p] = "signal"]
    /\ UNCHANGED <<otherVars, queueVars, signal, readers, prodVars, tmp, consVars, drainVars,
                   histVars>>

\* (changed: the call returns without _signal.release())
AddSignalForgotten(p, o) ==
    /\ pc[p] = "signal" /\ op[p] = o
    /\ pushDone' = pushDone + 1
    /\ pc' = [pc EXCEPT ![p] = "idle"]
    /\ op' = [op EXCEPT ![p] = "none"]
    /\ val' = [val EXCEPT ![p] = Nothing]
    /\ UNCHANGED <<otherVars, queueVars, signal, lockVars, tmp, consVars, drainVars, pushedSeq,
                   poppedSeq>>

\* _signal.release(), and the call returns.
AddSignal(p, o) ==
    /\ pc[p] = "signal" /\ op[p] = o
    /\ signal' = signal + 1
    /\ pushDone' = pushDone + 1
    /\ pc' = [pc EXCEPT ![p] = "idle"]
    /\ op' = [op EXCEPT ![p] = "none"]
    /\ val' = [val EXCEPT ![p] = Nothing]
    /\ UNCHANGED <<otherVars, queueVars, lockVars, tmp, consVars, drainVars, pushedSeq, poppedSeq>>

PushLock(p)   == \E v \in Values : AddLock(p, "push", v)
PushLoad(p)   == AddLoad(p, "push")
PushStore(p)  == AddStore(p, "push")
PushAppend(p) == AddAppend(p, "push")
PushUnlock(p) == AddUnlock(p, "push")
PushSignal(p) == AddSignal(p, "push")

EmplaceLock(p)   == \E v \in Values : AddLock(p, "emplace", v)
EmplaceLoad(p)   == AddLoad(p, "emplace")
EmplaceStore(p)  == AddStore(p, "emplace")
EmplaceAppend(p) == AddAppend(p, "emplace")
EmplaceUnlock(p) == AddUnlock(p, "emplace")
EmplaceSignal(p) == AddSignal(p, "emplace")

Push(p) ==
    \/ PushLock(p) \/ PushLoad(p) \/ PushStore(p)
    \/ PushAppend(p) \/ PushUnlock(p) \/ PushSignal(p)

Emplace(p) ==
    \/ EmplaceLock(p) \/ EmplaceLoad(p) \/ EmplaceStore(p)
    \/ EmplaceAppend(p) \/ EmplaceUnlock(p) \/ EmplaceSignal(p)

\* ------------------------------------------------- tryWaitItem
\* (changed: the lock is taken before waiting on the semaphore)
TryWaitCallLocked(c) ==
    /\ pc[c] = "idle"
    /\ CanLockExclusive(c)
    /\ writer' = c
    /\ pc' = [pc EXCEPT ![c] = "wait"]
    /\ UNCHANGED <<otherVars, queueVars, signal, readers, prodVars, tmp, consVars, drainVars,
                   histVars>>

\* The call starts and blocks in _signal.try_acquire_for(timeoutDuration).
TryWaitCall(c) ==
    /\ pc[c] = "idle"
    /\ pc' = [pc EXCEPT ![c] = "wait"]
    /\ UNCHANGED <<otherVars, queueVars, signal, lockVars, prodVars, tmp, consVars, drainVars,
                   histVars>>


\* (changed: the wait succeeds without taking a unit of the count)
TryAcquireUncounted(c) ==
    /\ pc[c] = "wait"
    /\ signal > 0
    /\ signal' = signal
    /\ pc' = [pc EXCEPT ![c] = "lock"]
    /\ UNCHANGED <<otherVars, queueVars, lockVars, prodVars, tmp, consVars, drainVars, histVars>>

\* try_acquire_for returns true: it decremented the count.
TryAcquire(c) ==
    /\ pc[c] = "wait"
    /\ signal > 0
    /\ signal' = signal - 1
    /\ pc' = [pc EXCEPT ![c] = "lock"]
    /\ UNCHANGED <<otherVars, queueVars, lockVars, prodVars, tmp, consVars, drainVars, histVars>>

\* (changed: the timed-out call is counted as a removal)
TryTimeoutCounted(c) ==
    /\ pc[c] = "wait"
    /\ signal = 0
    /\ counterRemoves' = counterRemoves + 1
    /\ pc' = [pc EXCEPT ![c] = "idle"]
    /\ UNCHANGED <<otherVars, container, counterAdds, signal, lockVars, prodVars, tmp, consVars,
                   drainVars, histVars>>

\* (changed: acquire() instead of try_acquire_for(): the wait never times out)
TryTimeoutNever(c) ==
    /\ FALSE
    /\ UNCHANGED vars

\* try_acquire_for returns false: the count stayed zero until the timeout;
\* the call falls through to return {} (item is still empty).
TryTimeout(c) ==
    /\ pc[c] = "wait"
    /\ signal = 0
    /\ pc' = [pc EXCEPT ![c] = "idle"]
    /\ UNCHANGED <<otherVars, queueVars, signal, lockVars, prodVars, tmp, consVars, drainVars,
                   histVars>>

\* if (RWLock _ {_containerMutex}; !_container.empty())
TryLock(c) ==
    /\ pc[c] = "lock"
    /\ CanLockExclusive(c)
    /\ writer' = c
    /\ pc' = [pc EXCEPT ![c] = IF container = <<>> THEN "unlock" ELSE "front"]
    /\ UNCHANGED <<otherVars, queueVars, signal, readers, prodVars, tmp, consVars, drainVars,
                   histVars>>

\* (changed: back() instead of front())
QueueBack(q) == q[Len(q)]

\* _container.front(): the head element
QueueFront(q) == Head(q)
\* _container.pop(): drops the head element
QueuePop(q) == Tail(q)

\* return std::make_optional(std::forward<StorageType>(_container.front()))
TryFront(c) ==
    /\ pc[c] = "front"
    /\ item' = [item EXCEPT ![c] = QueueFront(container)]
    /\ poppedSeq' = Append(poppedSeq, QueueFront(container))
    /\ pc' = [pc EXCEPT ![c] = "pop"]
    /\ UNCHANGED <<otherVars, queueVars, signal, lockVars, prodVars, tmp, nPop, nRem, drainVars,
                   pushedSeq, pushDone>>

\* (changed: the cleanup pops but forgets _counterRemoves++)
TryPopUncounted(c) ==
    /\ pc[c] = "pop"
    /\ container' = QueuePop(container)
    /\ nPop' = [nPop EXCEPT ![c] = @ + 1]
    /\ pc' = [pc EXCEPT ![c] = "unlock"]
    /\ UNCHANGED <<otherVars, counterAdds, counterRemoves, signal, lockVars, prodVars, tmp, item,
                   nRem, drainVars, histVars>>

\* scopeCleanup runs: _container.pop()
TryPop(c) ==
    /\ pc[c] = "pop"
    /\ container' = QueuePop(container)
    /\ nPop' = [nPop EXCEPT ![c] = @ + 1]
    /\ pc' = [pc EXCEPT ![c] = "loadrem"]
    /\ UNCHANGED <<otherVars, counterAdds, counterRemoves, signal, lockVars, prodVars, tmp, item,
                   nRem, drainVars, histVars>>

\* scopeCleanup: _counterRemoves++, the read ...
TryLoadRem(c) ==
    /\ pc[c] = "loadrem"
    /\ tmp' = [tmp EXCEPT ![c] = counterRemoves]
    /\ pc' = [pc EXCEPT ![c] = "storerem"]
    /\ UNCHANGED <<otherVars, queueVars, signal, lockVars, prodVars, consVars, drainVars, histVars>>

\* ... and the write.
TryStoreRem(c) ==
    /\ pc[c] = "storerem"
    /\ counterRemoves' = tmp[c] + 1
    /\ tmp' = [tmp EXCEPT ![c] = 0]
    /\ nRem' = [nRem EXCEPT ![c] = @ + 1]
    /\ pc' = [pc EXCEPT ![c] = "unlock"]
    /\ UNCHANGED <<otherVars, container, counterAdds, signal, lockVars, prodVars, item, nPop,
                   drainVars, histVars>>

\* End of the if statement: the unique_lock is destroyed, and the call returns
\* item[c] (the optional built by TryFront, or {} when the queue was empty).
TryUnlock(c) ==
    /\ pc[c] = "unlock"
    /\ writer' = IF writer = c THEN NoThread ELSE writer
    /\ pc' = [pc EXCEPT ![c] = "idle"]
    /\ item' = [item EXCEPT ![c] = Nothing]
    /\ nPop' = [nPop EXCEPT ![c] = 0]
    /\ nRem' = [nRem EXCEPT ![c] = 0]
    /\ UNCHANGED <<otherVars, queueVars, signal, readers, prodVars, tmp, drainVars, histVars>>

tryWaitItem(c) ==
    \/ TryWaitCall(c) \/ TryAcquire(c) \/ TryTimeout(c) \/ TryLock(c)
    \/ TryFront(c) \/ TryPop(c) \/ TryLoadRem(c) \/ TryStoreRem(c)
    \/ TryUnlock(c)

\* ------------------------------------------------- waitUntilEmpty / size
\* A thread is changing the std::queue: it holds the lock and is at its
\* push/emplace or pop() statement.
Mutating == \E t \in Producers \cup Consumers : pc[t] \in {"append", "pop"}

\* _container.empty() read WITHOUT the lock.  While another thread is changing
\* the container the read races with the write and may yield either answer.
EmptyObserved == IF Mutating THEN BOOLEAN ELSE {container = <<>>}

\* std::chrono::milliseconds spinDuration {32}
WaitUntilEmptyEnter(d) ==
    /\ pc[d] = "idle"
    /\ \E t \in Timeouts : timeoutDuration' = [timeoutDuration EXCEPT ![d] = t]
    /\ spinDuration' = [spinDuration EXCEPT ![d] = spinInterval]
    /\ slept' = [slept EXCEPT ![d] = 0]
    /\ sizeResult' = [sizeResult EXCEPT ![d] = 0]
    /\ pc' = [pc EXCEPT ![d] = "check"]
    /\ UNCHANGED <<otherVars, queueVars, signal, lockVars, prodVars, tmp, consVars, histVars>>

WaitUntilEmptyCall(d) ==
    /\ WaitUntilEmptyEnter(d)
    /\ UNCHANGED startOut

\* The same call made while no push or emplace is running, with the number of
\* items pushed and not yet counted as removed recorded as it starts.
WaitUntilEmptyQuiet(d) ==
    /\ \A p \in Producers : pc[p] = "idle"
    /\ WaitUntilEmptyEnter(d)
    /\ startOut' = [startOut EXCEPT ![d] = counterAdds - counterRemoves]

\* while (!_container.empty() && (spinDuration < timeoutDuration))
\* (the locals and the sleep total are dropped once the loop is left)
WaitCheck(d) ==
    /\ pc[d] = "check"
    /\ \E e \in EmptyObserved :
           IF ~e /\ spinDuration[d] < timeoutDuration[d]
           THEN /\ pc' = [pc EXCEPT ![d] = "sleep"]
                /\ UNCHANGED <<spinDuration, timeoutDuration, slept>>
           ELSE /\ pc' = [pc EXCEPT ![d] = "size"]
                /\ spinDuration' = [spinDuration EXCEPT ![d] = 0]
                /\ timeoutDuration' = [timeoutDuration EXCEPT ![d] = 0]
                /\ slept' = [slept EXCEPT ![d] = 0]
    /\ UNCHANGED <<otherVars, queueVars, signal, lockVars, prodVars, tmp, consVars,
                   sizeResult, startOut, histVars>>

\* std::this_thread::sleep_for(spinDuration); spinDuration += spinInterval;
WaitSleep(d) ==
    /\ pc[d] = "sleep"
    /\ slept' = [slept EXCEPT ![d] = @ + spinDuration[d]]
    /\ spinDuration' = [spinDuration EXCEPT ![d] = @ + spinInterval]
    /\ pc' = [pc EXCEPT ![d] = "check"]
    /\ UNCHANGED <<otherVars, queueVars, signal, lockVars, prodVars, tmp, consVars,
                   timeoutDuration, sizeResult, startOut, histVars>>

\* size(): RLock _ {_containerMutex}
SizeLock(d) ==
    /\ pc[d] = "size"
    /\ CanLockShared(d)
    /\ readers' = readers \cup {d}
    /\ pc' = [pc EXCEPT ![d] = "sizeread"]
    /\ UNCHANGED <<otherVars, queueVars, signal, writer, prodVars, tmp, consVars, drainVars,
                   histVars>>

\* (changed: size() reports the number of items ever added)
SizeReadAdds(d) ==
    /\ pc[d] = "sizeread"
    /\ sizeResult' = [sizeResult EXCEPT ![d] = counterAdds]
    /\ readers' = readers \ {d}
    /\ pc' = [pc EXCEPT ![d] = "ret"]
    /\ UNCHANGED <<otherVars, queueVars, signal, writer, prodVars, tmp, consVars,
                   timeoutDuration, spinDuration, slept, startOut, histVars>>

\* size(): return _container.size(), and the shared_lock is destroyed.
SizeRead(d) ==
    /\ pc[d] = "sizeread"
    /\ sizeResult' = [sizeResult EXCEPT ![d] = Len(container)]
    /\ readers' = readers \ {d}
    /\ pc' = [pc EXCEPT ![d] = "ret"]
    /\ UNCHANGED <<otherVars, queueVars, signal, writer, prodVars, tmp, consVars,
                   timeoutDuration, spinDuration, slept, startOut, histVars>>

\* waitUntilEmpty has returned size()'s value.
WaitReturn(d) ==
    /\ pc[d] = "ret"
    /\ pc' = [pc EXCEPT ![d] = "idle"]
    /\ sizeResult' = [sizeResult EXCEPT ![d] = 0]
    /\ startOut' = [startOut EXCEPT ![d] = 0]
    /\ UNCHANGED <<otherVars, queueVars, signal, lockVars, prodVars, tmp, consVars,
                   timeoutDuration, spinDuration, slept, histVars>>

waitUntilEmpty(d) ==
    \/ WaitUntilEmptyCall(d) \/ WaitCheck(d) \/ WaitSleep(d)
    \/ SizeLock(d) \/ SizeRead(d) \/ WaitReturn(d)

\* ------------------------------------------------- the system
Next ==
    \/ \E p \in Producers : Push(p)
    \/ \E p \in Producers : Emplace(p)
    \/ \E c \in Consumers : tryWaitItem(c)
    \/ \E d \in Drainers : waitUntilEmpty(d)

Spec == Init /\ [][Next]_vars

\* ------------------------------------------------- fair scheduling
\* A thread inside push/emplace keeps running (whether it calls again is the
\* caller's choice).
ProducerRun(p) ==
    \E o \in {"push", "emplace"} :
        AddLoad(p, o) \/ AddStore(p, o) \/ AddAppend(p, o) \/ AddUnlock(p, o)
        \/ AddSignal(p, o)

\* A consumer thread keeps calling tryWaitItem and keeps running inside it.
ConsumerRun(c) ==
    \/ TryWaitCall(c) \/ TryAcquire(c) \/ TryTimeout(c)
    \/ TryFront(c) \/ TryPop(c) \/ TryLoadRem(c) \/ TryStoreRem(c) \/ TryUnlock(c)

\* Threads are scheduled fairly; a thread blocked on the mutex gets it if the
\* mutex is free again and again; a reader inside size() leaves it.
FairSpec ==
    /\ Spec
    /\ \A p \in Producers : WF_vars(ProducerRun(p))
    /\ \A c \in Consumers : WF_vars(ConsumerRun(c)) /\ SF_vars(TryLock(c))
    /\ \A d \in Drainers : WF_vars(SizeRead(d))

\* The producers and consumers alone (no thread in waitUntilEmpty).
QueueNext ==
    \/ \E p \in Producers : Push(p)
    \/ \E p \in Producers : Emplace(p)
    \/ \E c \in Consumers : tryWaitItem(c)

FairQueueSpec ==
    /\ Init /\ [][QueueNext]_vars
    /\ \A p \in Producers : WF_vars(ProducerRun(p))
    /\ \A c \in Consumers : WF_vars(ConsumerRun(c)) /\ SF_vars(TryLock(c))

\* ------------------------------------------------- properties
IsPrefix(a, b) == Len(a) <= Len(b) /\ SubSeq(b, 1, Len(a)) = a

\* Producers whose running call has already incremented _counterAdds.
PastIncrement == {p \in Producers : pc[p] \in {"append", "unlock", "signal"}}
\* Producers whose running call has already appended its value.
PastAppend == {p \in Producers : pc[p] \in {"unlock", "signal"}}

C2_AddCounterExact ==
    /\ counterAdds = pushDone + Cardinality(PastIncrement)
    /\ (\A p \in Producers : pc[p] = "idle") => counterAdds = pushDone

\* C2 witness: both producers and a consumer have run, all MaxPush calls are
\* complete, and a consumer has stopped with items left.
C2_Witness ==
    /\ pushDone = MaxPush
    /\ counterAdds = MaxPush
    /\ counterRemoves = 1
    /\ container # <<>>
    /\ \A t \in Threads : pc[t] = "idle"

\* C3: the values handed out by tryWaitItem, in lock order, are a prefix of the
\* values appended, in lock order; outside critical sections what is left in
\* the queue is exactly the rest; a call returns the value it took from the head.
C3_Fifo ==
    /\ IsPrefix(poppedSeq, pushedSeq)
    /\ writer = NoThread => pushedSeq = poppedSeq \o container
    /\ \A c \in Consumers :
          item[c] # Nothing =>
             /\ poppedSeq # <<>>
             /\ item[c] = pushedSeq[Len(poppedSeq)]

\* C3 witness: two different values went through the queue and the second is
\* about to be returned.
C3_Witness ==
    /\ Len(poppedSeq) = 2
    /\ poppedSeq[1] # poppedSeq[2]
    /\ \E c \in Consumers : pc[c] = "unlock" /\ item[c] = poppedSeq[2]

\* C4: the semaphore is released only by a push/emplace that has appended its
\* item and no longer holds the lock, by exactly one unit, and every
\* push/emplace releases it on its way out (once per call).
C4_SignalStep ==
    /\ signal' > signal =>
          /\ signal' = signal + 1
          /\ \E p \in Producers :
                /\ pc[p] = "signal" /\ pc'[p] = "idle"
                /\ p \in PastAppend
                /\ writer # p /\ writer' # p
    /\ \A p \in Producers :
          (pc[p] # "idle" /\ pc'[p] = "idle") => signal' = signal + 1
    /\ \A p \in Producers :
          (pc[p] = "append" /\ pc'[p] # "append") =>
              (writer = p /\ Len(container') = Len(container) + 1)

C4_SignalAfterUnlock ==
    /\ [](Len(pushedSeq) = pushDone + Cardinality(PastAppend))
    /\ [](\A p \in Producers : pc[p] = "signal" => writer # p)
    /\ [][C4_SignalStep]_vars

\* C4 witness: a producer has appended and unlocked and is about to signal,
\* while another thread holds the lock.
C4_Witness ==
    \E p \in Producers :
        /\ pc[p] = "signal"
        /\ writer \notin {p, NoThread}
        /\ container # <<>>

\* C6: a tryWaitItem whose wait times out changes neither the items, nor the
\* counters, nor the semaphore's count, and returns the empty optional.
C6_TimeoutStep ==
    \A c \in Consumers :
        (pc[c] = "wait" /\ pc'[c] = "idle") =>
            /\ UNCHANGED <<container, counterAdds, counterRemoves, signal>>
            /\ item[c] = Nothing /\ nPop[c] = 0 /\ nRem[c] = 0

C6_TimeoutLeavesQueue == [][C6_TimeoutStep]_vars

\* C6 witness: a consumer is about to time out while the queue holds an item
\* (appended, not yet signalled) and the counters are not zero.
C6_Witness ==
    /\ pc["c1"] = "wait"
    /\ ENABLED TryTimeout("c1")
    /\ container # <<>>
    /\ counterRemoves > 0

\* C7: a tryWaitItem call pops at most once and counts at most once; when it
\* is about to return, it returns an item exactly if it counted one removal;
\* each counted removal raises _counterRemoves by one and takes one item.
C7_CallState ==
    \A c \in Consumers :
        /\ nPop[c] \in {0, 1} /\ nRem[c] \in {0, 1} /\ nRem[c] <= nPop[c]
        /\ pc[c] = "unlock" =>
              /\ (item[c] # Nothing) <=> (nRem[c] = 1)
              /\ nPop[c] = nRem[c]
        /\ pc[c] \in {"idle", "wait", "lock"} =>
              (item[c] = Nothing /\ nPop[c] = 0 /\ nRem[c] = 0)

C7_CallStep ==
    /\ counterRemoves' # counterRemoves =>
          \E c \in Consumers : nRem'[c] = nRem[c] + 1
    /\ Len(container') < Len(container) =>
          \E c \in Consumers : nPop'[c] = nPop[c] + 1
    /\ \A c \in Consumers :
          /\ nRem'[c] = nRem[c] + 1 => counterRemoves' = counterRemoves + 1
          /\ nPop'[c] = nPop[c] + 1 => Len(container') = Len(container) - 1
          /\ (pc[c] = "lock" /\ pc'[c] = "unlock") =>
                UNCHANGED <<container, counterRemoves>>

C7_OneRemovalPerItem == []C7_CallState /\ [][C7_CallStep]_vars

\* C7 witness: a call is about to return an item, having popped and counted once.
C7_Witness ==
    \E c \in Consumers :
        /\ pc[c] = "unlock" /\ item[c] # Nothing
        /\ nPop[c] = 1 /\ nRem[c] = 1
        /\ counterRemoves = 2

\* C9: a thread that is waiting on the semaphore (tryWaitItem) or sleeping
\* (waitUntilEmpty) holds the lock neither exclusively nor shared; the lock is
\* only ever held inside the bounded critical sections.
C9_NoSuspendHoldingLock ==
    /\ \A t \in Threads :
          pc[t] \in {"idle", "wait", "lock", "sleep", "check", "size", "signal"} =>
              (writer # t /\ t \notin readers)
    /\ writer # NoThread =>
          pc[writer] \in {"load", "store", "append", "unlock",
                          "front", "pop", "loadrem", "storerem"}
    /\ \A d \in readers : pc[d] = "sizeread"

\* C9 witness: one thread waits in tryWaitItem, one sleeps in waitUntilEmpty,
\* and meanwhile a producer got the lock.
C9_Witness ==
    /\ \E c \in Consumers : pc[c] = "wait"
    /\ \E d \in Drainers : pc[d] = "sleep"
    /\ \E p \in Producers : writer = p /\ pc[p] = "append"

\* C10 (as claimed): the time one waitUntilEmpty call has slept never exceeds
\* its timeout.
C10_SleepWithinTimeout ==
    \A d \in Drainers : pc[d] \in {"check", "sleep"} => slept[d] <= timeoutDuration[d]

ProducersIdle == \A p \in Producers : pc[p] = "idle"
Drained ==
    /\ container = <<>>
    /\ counterRemoves = counterAdds
    /\ counterAdds = pushDone

DrainersIdle == \A d \in Drainers : pc[d] = "idle"

\* The system restricted to the runs in which no push/emplace runs while a
\* waitUntilEmpty call does.
DrainNext ==
    \/ \E p \in Producers : DrainersIdle /\ (Push(p) \/ Emplace(p))
    \/ \E c \in Consumers : tryWaitItem(c)
    \/ \E d \in Drainers : WaitUntilEmptyQuiet(d)
    \/ \E d \in Drainers : WaitCheck(d) \/ WaitSleep(d) \/ SizeLock(d) \/ SizeRead(d)
    \/ \E d \in Drainers : WaitReturn(d)

DrainSpec == Init /\ [][DrainNext]_vars

\* C11: with no push/emplace running during the call, waitUntilEmpty returns
\* the number of items in the queue at the moment it reads the size (0 when
\* the queue was drained), and that is at most the items pushed minus the
\* items removed when the call started.
C11_ReadsSize ==
    \A d \in Drainers :
        (pc[d] = "sizeread" /\ pc'[d] = "ret") => sizeResult'[d] = Len(container)

C11_Residual ==
    /\ [](\A d \in Drainers :
             pc[d] = "ret" =>
                /\ sizeResult[d] <= startOut[d]
                /\ Len(container) <= sizeResult[d]
                /\ (sizeResult[d] = 0) => (container = <<>>))
    /\ [][C11_ReadsSize]_vars

\* C11 witness: two items were outstanding at the call, one was drained during
\* it, and the call returns the residual 1.
C11_Witness ==
    \E d \in Drainers :
        /\ pc[d] = "ret"
        /\ startOut[d] = 2
        /\ sizeResult[d] = 1
        /\ Len(container) = 1

\* C12: every step of an emplace call does to the items, the counters, the
\* semaphore and the lock exactly what push does at the same statement
\* (WaitableQueue.hpp 102-111), whatever the other threads are doing.
C12_EmplaceStep ==
    \A p \in Producers :
        (pc'[p] # pc[p] /\ (op[p] = "emplace" \/ op'[p] = "emplace")) =>
            /\ counterRemoves' = counterRemoves
            /\ readers' = readers
            /\ pc[p] = "idle" =>
                  /\ writer = NoThread /\ readers = {} /\ writer' = p
                  /\ pc'[p] = "load"
                  /\ UNCHANGED <<container, counterAdds, signal>>
            /\ pc[p] = "load" =>
                  /\ pc'[p] = "store"
                  /\ UNCHANGED <<container, counterAdds, signal, writer>>
            /\ pc[p] = "store" =>
                  /\ pc'[p] = "append"
                  /\ counterAdds' = counterAdds + 1
                  /\ UNCHANGED <<container, signal, writer>>
            /\ pc[p] = "append" =>
                  /\ pc'[p] = "unlock"
                  /\ container' = QueuePush(container, val[p])
                  /\ UNCHANGED <<counterAdds, signal, writer>>
            /\ pc[p] = "unlock" =>
                  /\ pc'[p] = "signal"
                  /\ writer = p /\ writer' = NoThread
                  /\ UNCHANGED <<container, counterAdds, signal>>
            /\ pc[p] = "signal" =>
                  /\ pc'[p] = "idle"
                  /\ signal' = signal + 1
                  /\ UNCHANGED <<container, counterAdds, writer>>

C12_EmplaceIsPush == [][C12_EmplaceStep]_vars

\* C12 witness: an emplace has appended behind an item whose push is still
\* about to signal.
C12_Witness ==
    \E p, q \in Producers :
        /\ op[p] = "emplace" /\ pc[p] = "unlock"
        /\ op[q] = "push" /\ pc[q] = "signal"
        /\ Len(container) = 2

\* ------------------------------------------------- RWContainer: the table
Range(q) == {q[i] : i \in 1..Len(q)}

\* itemFound != _container.end()
KeyPresent(k) == k \in Range(order)

\* _container.find(key): the stored handle, or the empty handle at end()
Lookup(k) == IF KeyPresent(k) THEN table[k] ELSE NullHandle

\* _container.size()
MapSize == Len(order)


\* An insertion that leaves the table as it was.
InsertionsDropped(o, k) == {o}

\* The iteration orders an unordered_map may have once k is inserted: any
\* order of the old keys and k (an insertion may rehash the table).
Insertions(o, k) ==
    {q \in [1..(Len(o) + 1) -> Range(o) \cup {k}] :
        \A i, j \in 1..(Len(o) + 1) : i /= j => q[i] /= q[j]}

\* _container.erase(item): the other keys keep their relative order.
RECURSIVE Erase(_, _)
Erase(o, k) ==
    IF o = <<>> THEN <<>>
    ELSE IF Head(o) = k THEN Erase(Tail(o), k)
    ELSE <<Head(o)>> \o Erase(Tail(o), k)

Snapshot == [table |-> table, order |-> order, adds |-> mapAdds,
             removes |-> mapRemoves, objects |-> nObjects]


\* An exclusive lock that looks at other writers only.
CanLockMapExclusiveWritersOnly == mapWriter = NoThread

\* std::unique_lock<std::shared_mutex> myWriterLock(_containerMutex)
CanLockMapExclusive == mapWriter = NoThread /\ mapReaders = {}

\* A shared lock that never waits.
CanLockMapSharedAlways == TRUE

\* std::shared_lock<std::shared_mutex> myReaderLock(_containerMutex)
CanLockMapShared == mapWriter = NoThread

\* ------------------------------------------------- RWContainer: add
\* The three overloads share one body; form says which was called. For the
\* shared-handle overload h is the caller's handle: empty, an object that
\* already exists, or one the caller has just made.
\* std::unique_lock myWriterLock; auto itemFound = _container.find(key)
MapAddLock(t, k, f, h) ==
    /\ mpc[t] = "idle"
    /\ mapWrites < MaxMapWrites
    /\ CanLockMapExclusive
    /\ IF f = "handle" THEN h \in 0..(nObjects + 1) ELSE h = NullHandle
    /\ nObjects' = IF h > nObjects THEN h ELSE nObjects
    /\ mapWriter' = t
    /\ call' = [call EXCEPT ![t] = [op |-> "add", key |-> k, form |-> f, handle |-> h]]
    /\ found' = [found EXCEPT ![t] = KeyPresent(k)]
    /\ pre' = [pre EXCEPT ![t] = Snapshot]
    /\ flipped' = [flipped EXCEPT ![t] = {}]
    /\ mapWrites' = mapWrites + 1
    /\ mpc' = [mpc EXCEPT ![t] = "chk1"]
    /\ UNCHANGED <<queueState, jsonVars, table, order, mapAdds, mapRemoves, mapPolicy,
                   mapReaders, result, scanPos, cbLog, scanLog>>


\* The collision treated as under the default policy: the stored handle is returned.
MapAddChk1ReturnsExisting(t) ==
    /\ mpc[t] = "chk1"
    /\ IF found[t] /\ FailOnCollission
       THEN /\ result' = [result EXCEPT ![t] = table[call[t].key]]
            /\ mpc' = [mpc EXCEPT ![t] = "unlock"]
       ELSE /\ result' = result
            /\ mpc' = [mpc EXCEPT ![t] = IF found[t] THEN "chk2" ELSE "insert"]
    /\ UNCHANGED <<queueState, jsonVars, mapShared, mapPolicy, mapLock, call, found,
                   scanPos, mapHist>>

\* if (itemFound != _container.end() && FailOnCollission) return {};
MapAddChk1(t) ==
    /\ mpc[t] = "chk1"
    /\ IF found[t] /\ FailOnCollission
       THEN /\ result' = [result EXCEPT ![t] = NullHandle]
            /\ mpc' = [mpc EXCEPT ![t] = "unlock"]
       ELSE /\ result' = result
            /\ mpc' = [mpc EXCEPT ![t] = IF found[t] THEN "chk2" ELSE "insert"]
    /\ UNCHANGED <<queueState, jsonVars, mapShared, mapPolicy, mapLock, call, found,
                   scanPos, mapHist>>

\* else if (itemFound != _container.end() && !FailOnCollission ...
MapAddChk2(t) ==
    /\ mpc[t] = "chk2"
    /\ mpc' = [mpc EXCEPT ![t] = IF FailOnCollission THEN "insert" ELSE "chk3"]
    /\ UNCHANGED <<queueState, jsonVars, mapShared, mapPolicy, mapLock, mapLocals, mapHist>>


\* ... && !ReplaceExisting) taken as if ReplaceExisting were always set.
MapAddChk3Replace(t) ==
    /\ mpc[t] = "chk3"
    /\ result' = result
    /\ mpc' = [mpc EXCEPT ![t] = "insert"]
    /\ UNCHANGED <<queueState, jsonVars, mapShared, mapPolicy, mapLock, call, found,
                   scanPos, mapHist>>

\* ... && !ReplaceExisting) return itemFound->second;
MapAddChk3(t) ==
    /\ mpc[t] = "chk3"
    /\ IF ReplaceExisting
       THEN /\ result' = result
            /\ mpc' = [mpc EXCEPT ![t] = "insert"]
       ELSE /\ result' = [result EXCEPT ![t] = table[call[t].key]]
            /\ mpc' = [mpc EXCEPT ![t] = "unlock"]
    /\ UNCHANGED <<queueState, jsonVars, mapShared, mapPolicy, mapLock, call, found,
                   scanPos, mapHist>>


\* Every overload storing a copy it makes itself.
NewHandlesCopied(t) == {nObjects + 1}

\* The handle given to insert_or_assign: std::make_shared<StorageType>(value),
\* the caller's handle, or what newObjectCallback(key) returns (a new object
\* or nothing).
NewHandles(t) ==
    CASE call[t].form = "value"    -> {nObjects + 1}
      [] call[t].form = "handle"   -> {call[t].handle}
      [] call[t].form = "callback" -> {NullHandle, nObjects + 1}

\* The factory overload evaluates newObjectCallback(key) on reaching the insert.
CallbackInvoked(t) == call[t].form = "callback"


\* insert_or_assign without the _counterAdds++.
MapAddInsertUncounted(t) ==
    /\ mpc[t] = "insert"
    /\ \E h \in NewHandles(t) :
        /\ nObjects' = IF h > nObjects THEN h ELSE nObjects
        /\ table' = [table EXCEPT ![call[t].key] = h]
        /\ result' = [result EXCEPT ![t] = h]
    /\ order' \in IF KeyPresent(call[t].key) THEN {order}
                  ELSE Insertions(order, call[t].key)
    /\ cbLog' = [cbLog EXCEPT ![t] =
                    IF CallbackInvoked(t)
                    THEN (IF KeyPresent(call[t].key) THEN "present" ELSE "absent")
                    ELSE "none"]
    /\ mpc' = [mpc EXCEPT ![t] = "unlock"]
    /\ UNCHANGED <<queueState, jsonVars, mapAdds, mapRemoves, mapPolicy, mapLock, call, found,
                   scanPos, pre, flipped, scanLog, mapWrites>>

\* if (auto [iter, rv] = _container.insert_or_assign(key, ...); iter != end())
\*     return _counterAdds++ ? iter->second : iter->second;
\* throw std::runtime_error(...);
\* iter is the entry of key in the table after the call; with no such entry
\* the function would reach the throw.
MapAddInsert(t) ==
    /\ mpc[t] = "insert"
    /\ \E h \in NewHandles(t) :
        /\ nObjects' = IF h > nObjects THEN h ELSE nObjects
        /\ table' = [table EXCEPT ![call[t].key] = h]
        /\ result' = [result EXCEPT ![t] = h]
    /\ order' \in IF KeyPresent(call[t].key) THEN {order}
                  ELSE Insertions(order, call[t].key)
    /\ mapAdds' = mapAdds + 1
    /\ cbLog' = [cbLog EXCEPT ![t] =
                    IF CallbackInvoked(t)
                    THEN (IF KeyPresent(call[t].key) THEN "present" ELSE "absent")
                    ELSE "none"]
    /\ mpc' = [mpc EXCEPT ![t] = IF call[t].key \in Range(order') THEN "unlock"
                                  ELSE "throw"]
    /\ UNCHANGED <<queueState, jsonVars, mapRemoves, mapPolicy, mapLock, call, found, scanPos,
                   pre, flipped, scanLog, mapWrites>>

\* ------------------------------------------------- RWContainer: remove
\* std::unique_lock myWriterLock; if (auto item = _container.find(key); ...)
MapRemoveLock(t, k) ==
    /\ mpc[t] = "idle"
    /\ mapWrites < MaxMapWrites
    /\ CanLockMapExclusive
    /\ mapWriter' = t
    /\ call' = [call EXCEPT ![t] = [op |-> "remove", key |-> k, form |-> "none",
                                     handle |-> NullHandle]]
    /\ found' = [found EXCEPT ![t] = KeyPresent(k)]
    /\ pre' = [pre EXCEPT ![t] = Snapshot]
    /\ mapWrites' = mapWrites + 1
    /\ IF KeyPresent(k)
       THEN /\ result' = result
            /\ mpc' = [mpc EXCEPT ![t] = "erase"]
       ELSE /\ result' = [result EXCEPT ![t] = NullHandle]
            /\ mpc' = [mpc EXCEPT ![t] = "unlock"]
    /\ UNCHANGED <<queueState, jsonVars, mapShared, mapPolicy, mapReaders, scanPos,
                   flipped, cbLog, scanLog>>


\* The erase taking every entry with it (as _container.clear() would).
MapEraseAll(t) ==
    /\ mpc[t] = "erase"
    /\ result' = [result EXCEPT ![t] = table[call[t].key]]
    /\ table' = [k \in Keys |-> NullHandle]
    /\ order' = <<>>
    /\ mapRemoves' = mapRemoves + 1
    /\ mpc' = [mpc EXCEPT ![t] = "unlock"]
    /\ UNCHANGED <<queueState, jsonVars, mapAdds, nObjects, mapPolicy, mapLock, call, found,
                   scanPos, mapHist>>

\* auto retItem = item->second; _container.erase(item); _counterRemoves++;
\* return retItem;
MapErase(t) ==
    /\ mpc[t] = "erase"
    /\ result' = [result EXCEPT ![t] = table[call[t].key]]
    /\ table' = [table EXCEPT ![call[t].key] = NullHandle]
    /\ order' = Erase(order, call[t].key)
    /\ mapRemoves' = mapRemoves + 1
    /\ mpc' = [mpc EXCEPT ![t] = "unlock"]
    /\ UNCHANGED <<queueState, jsonVars, mapAdds, nObjects, mapPolicy, mapLock, call, found,
                   scanPos, mapHist>>

\* ------------------------------------------------- RWContainer: find / size / scan
\* std::shared_lock<std::shared_mutex> myReaderLock(_containerMutex)
MapReadLock(t, o, k) ==
    /\ mpc[t] = "idle"
    /\ CanLockMapShared
    /\ mapReaders' = mapReaders \cup {t}
    /\ call' = [call EXCEPT ![t] = [op |-> o, key |-> k, form |-> "none",
                                     handle |-> NullHandle]]
    /\ pre' = [pre EXCEPT ![t] = Snapshot]
    /\ scanPos' = [scanPos EXCEPT ![t] = IF o = "scan" THEN 1 ELSE 0]
    /\ mpc' = [mpc EXCEPT ![t] = IF o = "scan" THEN "scan" ELSE "read"]
    /\ UNCHANGED <<queueState, jsonVars, mapShared, mapPolicy, mapWriter, found, result,
                   flipped, cbLog, scanLog, mapWrites>>

MapFindLock(t, k) == MapReadLock(t, "find", k)
MapSizeLock(t) == MapReadLock(t, "size", "none")
MapScanLock(t) == MapReadLock(t, "scan", "none")


\* The lookup written as _container[key], which inserts an empty entry for a
\* missing key.
MapFindReadSubscript(t) ==
    /\ mpc[t] = "read"
    /\ call[t].op = "find"
    /\ result' = [result EXCEPT ![t] = Lookup(call[t].key)]
    /\ order' = IF KeyPresent(call[t].key) THEN order ELSE Append(order, call[t].key)
    /\ mpc' = [mpc EXCEPT ![t] = "unlock"]
    /\ UNCHANGED <<queueState, jsonVars, table, mapAdds, mapRemoves, nObjects, mapPolicy, mapLock,
                   call, found, scanPos, mapHist>>

\* if (auto item = _container.find(key); item != _container.end())
\*     return item->second;
\* return {};
MapFindRead(t) ==
    /\ mpc[t] = "read"
    /\ call[t].op = "find"
    /\ result' = [result EXCEPT ![t] = Lookup(call[t].key)]
    /\ mpc' = [mpc EXCEPT ![t] = "unlock"]
    /\ UNCHANGED <<queueState, jsonVars, mapShared, mapPolicy, mapLock, call, found,
                   scanPos, mapHist>>

\* return _container.size();
MapSizeRead(t) ==
    /\ mpc[t] = "read"
    /\ call[t].op = "size"
    /\ result' = [result EXCEPT ![t] = MapSize]
    /\ mpc' = [mpc EXCEPT ![t] = "unlock"]
    /\ UNCHANGED <<queueState, jsonVars, mapShared, mapPolicy, mapLock, call, found,
                   scanPos, mapHist>>


\* The loop going on after a match when entries remain.
MapScanStepOn(t, b) ==
    /\ mpc[t] = "scan"
    /\ scanPos[t] <= Len(order)
    /\ scanLog' = [scanLog EXCEPT ![t] = Append(@, <<order[scanPos[t]], b>>)]
    /\ IF b /\ scanPos[t] = Len(order)
       THEN /\ result' = [result EXCEPT ![t] = table[order[scanPos[t]]]]
            /\ scanPos' = scanPos
            /\ mpc' = [mpc EXCEPT ![t] = "unlock"]
       ELSE /\ result' = result
            /\ scanPos' = [scanPos EXCEPT ![t] = @ + 1]
            /\ mpc' = mpc
    /\ UNCHANGED <<queueState, jsonVars, mapShared, mapPolicy, mapLock, call, found,
                   pre, flipped, cbLog, mapWrites>>

\* for (auto& item : _container)
\*     if (scanCallback(item.first, item.second)) return item.second;
\* One step per entry: the predicate answers b for the entry at scanPos.
MapScanStep(t, b) ==
    /\ mpc[t] = "scan"
    /\ scanPos[t] <= Len(order)
    /\ scanLog' = [scanLog EXCEPT ![t] = Append(@, <<order[scanPos[t]], b>>)]
    /\ IF b
       THEN /\ result' = [result EXCEPT ![t] = table[order[scanPos[t]]]]
            /\ scanPos' = scanPos
            /\ mpc' = [mpc EXCEPT ![t] = "unlock"]
       ELSE /\ result' = result
            /\ scanPos' = [scanPos EXCEPT ![t] = @ + 1]
            /\ mpc' = mpc
    /\ UNCHANGED <<queueState, jsonVars, mapShared, mapPolicy, mapLock, call, found,
                   pre, flipped, cbLog, mapWrites>>

\* The range-for has passed the last entry: return {};
MapScanEnd(t) ==
    /\ mpc[t] = "scan"
    /\ scanPos[t] > Len(order)
    /\ result' = [result EXCEPT ![t] = NullHandle]
    /\ mpc' = [mpc EXCEPT ![t] = "unlock"]
    /\ UNCHANGED <<queueState, jsonVars, mapShared, mapPolicy, mapLock, call, found,
                   scanPos, mapHist>>

\* ------------------------------------------------- RWContainer: return
\* The lock object goes out of scope and the call returns result[t].
MapUnlock(t) ==
    /\ mpc[t] = "unlock"
    /\ mapWriter' = IF mapWriter = t THEN NoThread ELSE mapWriter
    /\ mapReaders' = mapReaders \ {t}
    /\ call' = [call EXCEPT ![t] = NoCall]
    /\ found' = [found EXCEPT ![t] = FALSE]
    /\ result' = [result EXCEPT ![t] = NullHandle]
    /\ scanPos' = [scanPos EXCEPT ![t] = 0]
    /\ pre' = [pre EXCEPT ![t] = NoSnapshot]
    /\ flipped' = [flipped EXCEPT ![t] = {}]
    /\ cbLog' = [cbLog EXCEPT ![t] = "none"]
    /\ scanLog' = [scanLog EXCEPT ![t] = <<>>]
    /\ mpc' = [mpc EXCEPT ![t] = "idle"]
    /\ UNCHANGED <<queueState, jsonVars, mapShared, mapPolicy, mapWrites>>

\* ------------------------------------------------- RWContainer: the policy flags
\* ReplaceExisting and FailOnCollission are public data members: any code
\* holding the container may assign them at any time, without the lock.
InAdd == {t \in MapThreads : call[t].op = "add"}

SetReplaceExisting(b) ==
    /\ ReplaceExisting /= b
    /\ ReplaceExisting' = b
    /\ flipped' = [t \in MapThreads |->
                      IF t \in InAdd THEN flipped[t] \cup {"ReplaceExisting"}
                      ELSE flipped[t]]
    /\ UNCHANGED <<queueState, jsonVars, mapShared, FailOnCollission, mapLock, mpc, mapLocals,
                   pre, cbLog, scanLog, mapWrites>>

SetFailOnCollission(b) ==
    /\ FailOnCollission /= b
    /\ FailOnCollission' = b
    /\ flipped' = [t \in MapThreads |->
                      IF t \in InAdd THEN flipped[t] \cup {"FailOnCollission"}
                      ELSE flipped[t]]
    /\ UNCHANGED <<queueState, jsonVars, mapShared, ReplaceExisting, mapLock, mpc, mapLocals,
                   pre, cbLog, scanLog, mapWrites>>

\* ------------------------------------------------- RWContainer: the system
add(t) ==
    \/ \E k \in Keys, f \in AddForms, h \in 0..MaxMapWrites : MapAddLock(t, k, f, h)
    \/ MapAddChk1(t) \/ MapAddChk2(t) \/ MapAddChk3(t) \/ MapAddInsert(t)

remove(t) == (\E k \in Keys : MapRemoveLock(t, k)) \/ MapErase(t)

find(t) == (\E k \in Keys : MapFindLock(t, k)) \/ MapFindRead(t)

size(t) == MapSizeLock(t) \/ MapSizeRead(t)

scan(t) == MapScanLock(t) \/ (\E b \in BOOLEAN : MapScanStep(t, b)) \/ MapScanEnd(t)

\* The handles callers keep after a call are followed in OwnSpec; here they
\* are left out.
MapNext ==
    \/ \E t \in MapThreads : add(t) /\ UNCHANGED ownVars
    \/ \E t \in MapThreads : remove(t) /\ UNCHANGED ownVars
    \/ \E t \in MapThreads : find(t) /\ UNCHANGED ownVars
    \/ \E t \in MapThreads : size(t) /\ UNCHANGED ownVars
    \/ \E t \in MapThreads : scan(t) /\ UNCHANGED ownVars
    \/ \E t \in MapThreads : MapUnlock(t) /\ UNCHANGED ownVars
    \/ \E b \in BOOLEAN : SetReplaceExisting(b) /\ UNCHANGED ownVars
    \/ \E b \in BOOLEAN : SetFailOnCollission(b) /\ UNCHANGED ownVars

MapSpec == Init /\ [][MapNext]_vars

\* ------------------------------------------------- RWContainer: properties
\* An add call that has done its work and is about to return result[t].
AddReturning(t) == mpc[t] = "unlock" /\ call[t].op = "add"

\* The policy in force during the running add call of t (neither flag was
\* written since the call took the lock).
PolicyWas(t, replace, fail) ==
    /\ flipped[t] = {}
    /\ ReplaceExisting = replace
    /\ FailOnCollission = fail

\* C13: under the default policy (ReplaceExisting = false, FailOnCollission =
\* false) an add on a key that is already present returns the handle stored
\* for that key and leaves the table, size() and addCount as they were.
C13_DefaultKeepsExisting ==
    \A t \in MapThreads :
        (AddReturning(t) /\ found[t] /\ PolicyWas(t, FALSE, FALSE)) =>
            /\ result[t] = pre[t].table[call[t].key]
            /\ table = pre[t].table
            /\ order = pre[t].order
            /\ MapSize = Len(pre[t].order)
            /\ mapAdds = pre[t].adds

\* C13 witness: add(key, value) on a present key returns under the default policy.
C13_Witness ==
    \E t \in MapThreads :
        /\ AddReturning(t) /\ found[t] /\ PolicyWas(t, FALSE, FALSE)
        /\ call[t].form = "value"
        /\ result[t] /= NullHandle
        /\ mapAdds = 1

\* The handle an add call stores: a new object for the value form, the
\* caller's handle for the shared-handle form, the callback's result (a new
\* object or nothing) for the factory form.
StoresGivenHandle(t) ==
    CASE call[t].form = "value"    -> result[t] = pre[t].objects + 1
      [] call[t].form = "handle"   -> result[t] = call[t].handle
      [] call[t].form = "callback" -> result[t] \in {NullHandle, pre[t].objects + 1}

\* The entries of the keys other than the one the call of t names are as they
\* were when the call took the lock.
OtherEntriesKept(t) ==
    \A k \in Keys \ {call[t].key} :
        /\ (k \in Range(order)) <=> (k \in Range(pre[t].order))
        /\ table[k] = pre[t].table[k]

\* C14: with ReplaceExisting = true and FailOnCollission = false an add on a
\* present key overwrites the entry and returns the handle of the new value,
\* addCount grows by one, size() is unchanged, and find(key) now yields the
\* new handle.
C14_ReplaceOverwrites ==
    \A t \in MapThreads :
        (AddReturning(t) /\ found[t] /\ PolicyWas(t, TRUE, FALSE)) =>
            /\ StoresGivenHandle(t)
            /\ table[call[t].key] = result[t]
            /\ Lookup(call[t].key) = result[t]
            /\ mapAdds = pre[t].adds + 1
            /\ MapSize = Len(pre[t].order)
            /\ order = pre[t].order
            /\ OtherEntriesKept(t)

\* C14 witness: add(key, value) has overwritten the object stored for a
\* present key with a new one.
C14_Witness ==
    \E t \in MapThreads :
        /\ AddReturning(t) /\ found[t] /\ PolicyWas(t, TRUE, FALSE)
        /\ call[t].form = "value"
        /\ pre[t].table[call[t].key] /= NullHandle
        /\ result[t] /= pre[t].table[call[t].key]
        /\ mapAdds = 2

\* FailOnCollission was set during the whole running add call of t
\* (ReplaceExisting may have had any value and may have been written).
FailWasSet(t) == FailOnCollission /\ "FailOnCollission" \notin flipped[t]

\* C15: with FailOnCollission = true an add on a present key returns the
\* empty handle whatever ReplaceExisting is, and the handle stored for the
\* key, size() and addCount are unchanged.
C15_FailReturnsAbsent ==
    \A t \in MapThreads :
        (AddReturning(t) /\ found[t] /\ FailWasSet(t)) =>
            /\ result[t] = NullHandle
            /\ table = pre[t].table
            /\ order = pre[t].order
            /\ MapSize = Len(pre[t].order)
            /\ mapAdds = pre[t].adds

\* C15 witness: add on a present key returns with FailOnCollission and
\* ReplaceExisting both set, the stored object still in place.
C15_Witness ==
    \E t \in MapThreads :
        /\ AddReturning(t) /\ found[t] /\ FailWasSet(t)
        /\ ReplaceExisting
        /\ table[call[t].key] /= NullHandle
        /\ result[t] = NullHandle

\* C16: the factory-callback form of add never invokes the callback while
\* the key is already present in the map, whatever ReplaceExisting and
\* FailOnCollission are.
C16_CallbackOnlyWhenAbsent ==
    \A t \in MapThreads : cbLog[t] /= "present"

\* C17: an add on a key that is not present, in any input form and under any
\* policy, inserts exactly one entry, adds one to addCount and to size(), and
\* returns the stored handle: find(key) now yields that handle, and for the
\* shared-handle form it is the handle that was passed in.
C17_AddAbsentInserts ==
    \A t \in MapThreads :
        (AddReturning(t) /\ ~found[t]) =>
            /\ Range(order) = Range(pre[t].order) \cup {call[t].key}
            /\ MapSize = Len(pre[t].order) + 1
            /\ mapAdds = pre[t].adds + 1
            /\ OtherEntriesKept(t)
            /\ table[call[t].key] = result[t]
            /\ Lookup(call[t].key) = result[t]
            /\ StoresGivenHandle(t)
            /\ call[t].form = "handle" => result[t] = call[t].handle

\* C17 witness: the shared-handle form has added a second key, with
\* FailOnCollission set, and returns the caller's handle.
C17_Witness ==
    \E t \in MapThreads :
        /\ AddReturning(t) /\ ~found[t]
        /\ call[t].form = "handle"
        /\ call[t].handle /= NullHandle
        /\ result[t] = call[t].handle
        /\ FailOnCollission
        /\ MapSize = 2

\* A remove call that has done its work and is about to return result[t].
RemoveReturning(t) == mpc[t] = "unlock" /\ call[t].op = "remove"

\* A key enters the table only by the insert step of an add call on that key.
C18_AbsentUntilAdded ==
    \A k \in Keys :
        (~KeyPresent(k) /\ k \in Range(order')) =>
            \E t \in MapThreads :
                /\ call[t].op = "add" /\ call[t].key = k
                /\ mpc[t] = "insert" /\ mpc'[t] = "unlock"

\* C18: remove(key) of a present key returns the handle find(key) would have
\* returned just before, erases that entry and no other, adds one to
\* removeCount, and find(key) yields nothing from then on until the key is
\* added again.
C18_RemovePresent ==
    /\ [](\A t \in MapThreads :
            (RemoveReturning(t) /\ found[t]) =>
                /\ result[t] = pre[t].table[call[t].key]
                /\ Range(order) = Range(pre[t].order) \ {call[t].key}
                /\ MapSize = Len(pre[t].order) - 1
                /\ OtherEntriesKept(t)
                /\ mapRemoves = pre[t].removes + 1
                /\ mapAdds = pre[t].adds
                /\ Lookup(call[t].key) = NullHandle)
    /\ [][C18_AbsentUntilAdded]_vars

\* C18 witness: one of two entries has been removed and its object is returned.
C18_Witness ==
    \E t \in MapThreads :
        /\ RemoveReturning(t) /\ found[t]
        /\ result[t] /= NullHandle
        /\ MapSize = 1
        /\ mapRemoves = 1

\* The running call of t is a find, a size, a scan, or a remove whose key
\* was not found.
NonMutating(t) ==
    \/ call[t].op \in {"find", "size", "scan"}
    \/ call[t].op = "remove" /\ ~found[t]

\* C19: find, size, scan and a remove of an absent key leave the table,
\* addCount and removeCount as they were, from taking the lock to the return;
\* find and remove return the empty handle for a key that is not present.
C19_ReadsLeaveMap ==
    \A t \in MapThreads :
        NonMutating(t) =>
            /\ table = pre[t].table
            /\ order = pre[t].order
            /\ mapAdds = pre[t].adds
            /\ mapRemoves = pre[t].removes
            /\ (mpc[t] = "unlock" /\ call[t].op \in {"find", "remove"}
                  /\ ~KeyPresent(call[t].key)) => result[t] = NullHandle

\* C19 witness: a find of a missing key and a scan that visited the one
\* entry of the table are both about to return.
C19_Witness ==
    \E t, u \in MapThreads :
        /\ mpc[t] = "unlock" /\ call[t].op = "find"
        /\ ~KeyPresent(call[t].key) /\ result[t] = NullHandle
        /\ mpc[u] = "unlock" /\ call[u].op = "scan" /\ Len(scanLog[u]) = 1
        /\ MapSize = 1

\* The positions at which the predicate answered true in the scan of t.
Matches(t) == {i \in 1..Len(scanLog[t]) : scanLog[t][i][2]}

\* C20: scan invokes the predicate on the entries in iteration order, each at
\* most once, and stops at the first entry for which it answers true,
\* returning that entry's handle; when no entry matches (or the map is empty)
\* the predicate has been invoked exactly once per entry and scan returns
\* the empty handle.
C20_ScanFirstMatch ==
    \A t \in MapThreads :
        call[t].op = "scan" =>
            /\ Len(scanLog[t]) <= Len(order)
            /\ \A i \in 1..Len(scanLog[t]) : scanLog[t][i][1] = order[i]
            /\ Matches(t) \subseteq {Len(scanLog[t])}
            /\ mpc[t] = "scan" => Matches(t) = {}
            /\ (mpc[t] = "unlock" /\ Matches(t) /= {}) =>
                  result[t] = table[order[Len(scanLog[t])]]
            /\ (mpc[t] = "unlock" /\ Matches(t) = {}) =>
                  /\ Len(scanLog[t]) = Len(order)
                  /\ result[t] = NullHandle

\* C20 witness: two scans of a table of two entries are about to return, one
\* that matched the first entry and never saw the second, one that matched none.
C20_Witness ==
    \E t, u \in MapThreads :
        /\ MapSize = 2
        /\ mpc[t] = "unlock" /\ call[t].op = "scan"
        /\ Len(scanLog[t]) = 1 /\ Matches(t) = {1}
        /\ result[t] = table[order[1]] /\ result[t] /= NullHandle
        /\ mpc[u] = "unlock" /\ call[u].op = "scan"
        /\ Len(scanLog[u]) = 2 /\ Matches(u) = {}

\* A scan call of t is running (from taking the lock to the return).
Scanning(t) == call[t].op = "scan"

\* No step taken while the scan of t runs changes the table.
C21_ScanStep ==
    \A t \in MapThreads :
        (Scanning(t) /\ call'[t].op = "scan") => (table' = table /\ order' = order)

\* C21: scan holds the lock shared from before its first predicate invocation
\* to its return: meanwhile no thread holds it exclusively, no add or remove
\* changes the table, and every entry shown to the predicate is an entry of
\* the one table state the scan started on.
C21_ScanSeesOneTable ==
    /\ [](\A t \in MapThreads :
            Scanning(t) =>
                /\ t \in mapReaders
                /\ mapWriter = NoThread
                /\ table = pre[t].table
                /\ order = pre[t].order
                /\ \A i \in 1..Len(scanLog[t]) :
                      /\ i <= Len(pre[t].order)
                      /\ scanLog[t][i][1] = pre[t].order[i])
    /\ [][C21_ScanStep]_vars

\* C21 witness: a scan has shown the first of two entries to the predicate and
\* goes on, while the other thread, idle with writes left to make, cannot
\* start an add.
C21_Witness ==
    \E t, u \in MapThreads :
        /\ t /= u
        /\ Scanning(t) /\ mpc[t] = "scan" /\ Len(scanLog[t]) = 1
        /\ MapSize = 2
        /\ mpc[u] = "idle"
        /\ mapWrites < MaxMapWrites
        /\ ~ENABLED (\E k \in Keys : MapAddLock(u, k, "value", NullHandle))

\* Thread t is inside the critical section of a map operation.
InMapCS(t) == mpc[t] /= "idle"
\* Thread t is inside the critical section of add or remove.
InMapWriteCS(t) == InMapCS(t) /\ call[t].op \in {"add", "remove"}

\* C22: while a thread is inside the critical section of add or remove no
\* other thread is inside the critical section of add, remove, find, size or
\* scan (several find/size/scan calls may be inside theirs together).
C22_WritersExclude ==
    \A t, u \in MapThreads :
        (t /= u /\ InMapWriteCS(t)) =>
            /\ ~InMapCS(u)
            /\ mapWriter = t
            /\ mapReaders = {}

\* C22 witness: a find and a scan are inside their critical sections at the
\* same time, on a table an add has filled.
C22_Witness ==
    \E t, u \in MapThreads :
        /\ t /= u
        /\ InMapCS(t) /\ call[t].op = "find"
        /\ InMapCS(u) /\ call[u].op = "scan"
        /\ mapReaders = {t, u}
        /\ mapAdds > 0

\* ------------------------------------------------- RWContainer: toJson
\* return nlohmann::json {{"_typver", ...}, {"adds", _counterAdds.load()}, ...
\* The fields of the braced list are read one after the other; the function
\* takes no lock.
ToJsonCall ==
    /\ jpc = "idle"
    /\ json' = [NoJson EXCEPT !.adds = mapAdds]
    /\ jpc' = "removes"
    /\ UNCHANGED <<queueState, mapState>>

\* {"removes", _counterRemoves.load()}
ToJsonRemoves ==
    /\ jpc = "removes"
    /\ json' = [json EXCEPT !.removes = mapRemoves]
    /\ jpc' = "policy"
    /\ UNCHANGED <<queueState, mapState>>

\* {"ReplaceExisting", ReplaceExisting}, {"FailOnCollission", FailOnCollission}
ToJsonPolicy ==
    /\ jpc = "policy"
    /\ json' = [json EXCEPT !.ReplaceExisting = ReplaceExisting,
                            !.FailOnCollission = FailOnCollission]
    /\ jpc' = "size"
    /\ UNCHANGED <<queueState, mapState>>

\* What _container.size() can yield: the size, or, read while a writer is
\* inside insert_or_assign or erase (a data race), any count.
SizesReadable ==
    IF mapWriter = NoThread THEN {MapSize} ELSE 0..Cardinality(Keys)

\* {"size", _container.size()}
ToJsonSize ==
    /\ jpc = "size"
    /\ \E n \in SizesReadable : json' = [json EXCEPT !.size = n]
    /\ jpc' = "ret"
    /\ UNCHANGED <<queueState, mapState>>

\* The snapshot is returned.
ToJsonReturn ==
    /\ jpc = "ret"
    /\ json' = NoJson
    /\ jpc' = "idle"
    /\ UNCHANGED <<queueState, mapState>>

toJson == ToJsonCall \/ ToJsonRemoves \/ ToJsonPolicy \/ ToJsonSize \/ ToJsonReturn

\* The map with a thread taking snapshots while the others write (the policy
\* stays as constructed).
JsonNext ==
    \/ \E t \in MapThreads : add(t) /\ UNCHANGED ownVars
    \/ \E t \in MapThreads : remove(t) /\ UNCHANGED ownVars
    \/ \E t \in MapThreads : MapUnlock(t) /\ UNCHANGED ownVars
    \/ toJson /\ UNCHANGED ownVars

JsonSpec == Init /\ [][JsonNext]_vars

\* C23: toJson reads the container's size while it holds the container's
\* lock shared, so never while a writer is inside its critical section.
C23_SnapshotUnderSharedLock ==
    jpc = "size" => (mapReaders /= {} /\ mapWriter = NoThread)

\* C24: no add reaches its throw: whatever the key, the input form and the
\* policy, the entry is in the table after insert_or_assign; and every
\* add, remove, find and scan returns a handle or the empty handle.
C24_AddNeverThrows ==
    \A t \in MapThreads :
        /\ mpc[t] /= "throw"
        /\ (mpc[t] = "unlock" /\ call[t].op /= "size") => result[t] \in 0..nObjects

\* C24 witness: the callback form passed the collision check on a present key
\* (ReplaceExisting set) and returns the object it stored.
C24_Witness ==
    \E t \in MapThreads :
        /\ AddReturning(t) /\ found[t]
        /\ ReplaceExisting
        /\ call[t].form = "callback"
        /\ result[t] /= NullHandle
        /\ table[call[t].key] = result[t]

\* ------------------------------------------------- RWContainer: shared ownership
\* remove returning a reference into the entry it erases.
OwningResultsNotRemove == {"add", "find", "scan"}

\* The operations whose return value is a StorageTypePtr of its own, copied
\* from the stored handle before the lock (and, in remove, the entry) is gone.
OwningResults == {"add", "remove", "find", "scan"}

\* The shared_ptr handles that refer to object o: the table's entries, the
\* handle a caller passed to the running add, the value a call is about to
\* return, and the handles callers have kept.
Holders(o) ==
       {<<"table", k>> : k \in {k \in Range(order) : table[k] = o}}
  \cup {<<"arg", t>> : t \in {t \in MapThreads : call[t].op = "add" /\ call[t].handle = o}}
  \cup {<<"result", t>> : t \in {t \in MapThreads :
            mpc[t] = "unlock" /\ call[t].op \in OwningResults /\ result[t] = o}}
  \cup {<<"held", t>> : t \in {t \in MapThreads : held[t] = o}}

\* ~shared_ptr: an object is destroyed when the step drops its last handle.
Destroy ==
    destroyed' = destroyed \cup
        {o \in 1..nObjects : Holders(o) /= {} /\ Holders(o)' = {}}

\* The caller of the returning call keeps the handle it gets (dropping the one
\* it had) or lets it go.
OwnReturn(t) ==
    /\ MapUnlock(t)
    /\ \/ held' = held
       \/ /\ call[t].op /= "size"
          /\ result[t] /= NullHandle
          /\ held' = [held EXCEPT ![t] = result[t]]
    /\ Destroy

\* The caller lets go of the handle it kept.
OwnRelease(t) ==
    /\ held[t] /= NullHandle
    /\ held' = [held EXCEPT ![t] = NullHandle]
    /\ UNCHANGED <<queueState, mapState, jsonVars>>
    /\ Destroy

\* add called with a handle the caller owns: none, the one it kept, or a new object.
OwnAdd(t) ==
    /\ \/ \E k \in Keys, f \in AddForms :
            \E h \in {NullHandle, held[t], nObjects + 1} : MapAddLock(t, k, f, h)
       \/ MapAddChk1(t) \/ MapAddChk2(t) \/ MapAddChk3(t) \/ MapAddInsert(t)
    /\ held' = held
    /\ Destroy

\* The policy is set between calls.
OwnNext ==
    \/ \E t \in MapThreads : OwnAdd(t)
    \/ \E t \in MapThreads : remove(t) /\ held' = held /\ Destroy
    \/ \E t \in MapThreads : find(t) /\ held' = held /\ Destroy
    \/ \E t \in MapThreads : scan(t) /\ held' = held /\ Destroy
    \/ \E t \in MapThreads : OwnReturn(t)
    \/ \E t \in MapThreads : OwnRelease(t)
    \/ \E b \in BOOLEAN :
          /\ \A t \in MapThreads : mpc[t] = "idle"
          /\ SetReplaceExisting(b) /\ held' = held /\ Destroy

OwnSpec == Init /\ [][OwnNext]_vars

\* C25: an object stays alive while the table or a caller holds a handle to
\* it: the handles callers kept from add, find, scan or remove, the values
\* about to be returned and the table's entries never refer to a destroyed
\* object, also after the entry was removed or overwritten.
C25_HeldStaysAlive ==
    /\ \A t \in MapThreads : held[t] \notin destroyed
    /\ \A t \in MapThreads :
          (mpc[t] = "unlock" /\ call[t].op /= "size") => result[t] \notin destroyed
    /\ \A k \in Range(order) : table[k] \notin destroyed

\* C25 witness: one caller keeps the object remove returned and the other
\* one an object that add has since overwritten; neither object is in the
\* table any more, and another object has been destroyed.
C25_Witness ==
    \E t, u \in MapThreads :
        /\ t /= u
        /\ held[t] /= NullHandle /\ held[u] /= NullHandle /\ held[t] /= held[u]
        /\ \A k \in Range(order) : table[k] \notin {held[t], held[u]}
        /\ mapRemoves > 0
        /\ mapAdds > MapSize + mapRemoves
        /\ \A i \in MapThreads : mpc[i] = "idle"

\* ------------------------------------------------- RWContainer: ReplaceExisting never set
\* The map used with ReplaceExisting left false, FailOnCollission written at
\* any time.
NoReplaceNext ==
    \/ \E t \in MapThreads : add(t) /\ UNCHANGED ownVars
    \/ \E t \in MapThreads : remove(t) /\ UNCHANGED ownVars
    \/ \E t \in MapThreads : find(t) /\ UNCHANGED ownVars
    \/ \E t \in MapThreads : MapUnlock(t) /\ UNCHANGED ownVars
    \/ \E b \in BOOLEAN : SetFailOnCollission(b) /\ UNCHANGED ownVars

NoReplaceSpec == Init /\ [][NoReplaceNext]_vars

\* C26: with ReplaceExisting false throughout, an add on a key that is
\* already present leaves the handle stored for the key as it was, also when
\* FailOnCollission is written while the add runs.
C26_NoOverwriteWithoutReplace ==
    \A t \in MapThreads :
        (AddReturning(t) /\ found[t] /\ ~ReplaceExisting) =>
            table[call[t].key] = pre[t].table[call[t].key]

\* ------------------------------------------------- WaitableQueue: access to the items
\* A step that reads or writes _container: the append of push/emplace, front()
\* and pop() of tryWaitItem, the size() read, and the empty() test of
\* waitUntilEmpty. Each is taken by a thread holding the lock, and no
\* inspection happens while a writer holds it.
C27_ItemAccessStep ==
    /\ \A p \in Producers :
          (pc[p] = "append" /\ pc'[p] /= "append") => writer = p
    /\ \A c \in Consumers :
          (pc[c] \in {"front", "pop"} /\ pc'[c] /= pc[c]) => writer = c
    /\ \A d \in Drainers :
          (pc[d] = "sizeread" /\ pc'[d] /= "sizeread") =>
              (d \in readers /\ writer = NoThread)
    /\ \A d \in Drainers :
          (pc[d] = "check" /\ pc'[d] /= "check") =>
              (d \in readers /\ writer = NoThread)

\* C27: every read or write of the queue's items by push, emplace,
\* tryWaitItem, size and waitUntilEmpty is made by a thread that holds the
\* queue's lock, so no thread inspects the items while another is inside a
\* push or pop critical section.
C27_ItemsUnderLock == [][C27_ItemAccessStep]_vars

\* ------------------------------------------------- WaitableQueue: semaphore and items
\* Consumers whose wait succeeded and that have not yet popped their item.
AcquiredNotPopped == {c \in Consumers : pc[c] \in {"lock", "front", "pop"}}

C29_SizeVersusCounters ==
    (\A t \in MapThreads : mpc[t] = "idle") =>
        /\ MapSize <= mapAdds - mapRemoves
        /\ ~ReplaceExisting => MapSize = mapAdds - mapRemoves

\* ------------------------------------------------- RWContainer: stored handles
\* C30: every key in the table maps to a non-empty handle, whatever the input
\* form of the adds (also a shared-handle argument or a callback result that
\* is empty); so find yields the empty handle only for a key that is not in
\* the table, and add only for a collision rejected under FailOnCollission.
C30_StoredHandlesNonEmpty ==
    /\ \A k \in Range(order) : table[k] /= NullHandle
    /\ \A t \in MapThreads :
          (mpc[t] = "unlock" /\ call[t].op = "find" /\ result[t] = NullHandle) =>
              ~KeyPresent(call[t].key)
    /\ \A t \in MapThreads :
          (AddReturning(t) /\ result[t] = NullHandle) => found[t]
====
